---- MODULE Spec2Model ----
(***************************************************************************)
(* Model of package httpdshutdown (bradclawsie/conncounter): a Watcher     *)
(* counts live http connections in a sync.WaitGroup, and OnStop races a    *)
(* goroutine blocked in WaitGroup.Wait against time.After(timeoutMS),      *)
(* runs the shutdown hooks and reports which side won.                     *)
(*                                                                         *)
(* Goroutines: the caller of NewWatcher and OnStop (the "stopper"), the    *)
(* server goroutines that call RecordConnState, and one waiter goroutine   *)
(* per OnStop call.  RecordConnState touches shared state in exactly one   *)
(* atomic WaitGroup operation, so a call is one step; concurrent calls are *)
(* the interleavings of these steps.                                       *)
(*                                                                         *)
(* Accepting and IsAccepting are called by one goroutine each, beside the  *)
(* Accepting(false) that OnStop makes itself.  acceptingMut is a           *)
(* sync.RWMutex: Lock waits until no writer and no reader holds it, RLock  *)
(* until no writer holds it.  The flag is written, or read, in the step    *)
(* that takes the lock: no other goroutine can look at the flag between    *)
(* taking the lock and the access, so nothing is lost by taking them       *)
(* together.                                                               *)
(*                                                                         *)
(* Spec is the watcher with its connection events and OnStop calls;        *)
(* SpecLive is Spec under fair scheduling of the watcher's goroutines;     *)
(* SpecFlag adds the goroutines that set and poll the accepting flag, on   *)
(* watchers with fewer hooks, OnStop calls and connection events;          *)
(* SpecLock has several goroutines that poll the flag; SpecSig is the      *)
(* daemon of the package's example, where SigHandle (the method of         *)
(* httpdshutdown.go, which reports on the channel exitcode) calls OnStop   *)
(* and the main goroutine exits with the code it receives.                 *)
(*                                                                         *)
(* In Go a Lock that is waiting also holds back new RLocks.  The model     *)
(* leaves this out: it only delays readers, so every behaviour of the      *)
(* program is a behaviour of the model.                                    *)
(*                                                                         *)
(* Time: the timer counts milliseconds.  A millisecond passes (Tick) only  *)
(* when no goroutine of the watcher has a step it can take: goroutine      *)
(* steps are taken to be fast against the millisecond clock, which is what *)
(* the package's tests rely on.  Connection events and hook durations are  *)
(* the environment's and may happen at any instant.                        *)
(*                                                                         *)
(* sync.WaitGroup is modelled by its documented behaviour: Add changes the *)
(* counter atomically, releases every blocked Wait when the counter        *)
(* becomes zero and panics (after having stored the value) when it becomes *)
(* negative; Wait returns at once when the counter is zero, and a Wait     *)
(* that was released panics when it finds the counter changed again before *)
(* it has returned.  A channel send is handed to a select blocked on the   *)
(* channel, and buffered otherwise; a select that finds several cases      *)
(* ready takes any of them.                                                *)
(***************************************************************************)
EXTENDS Integers, Sequences, FiniteSets, TLC

\* ---------------------------------------------------------------- bounds
MaxTimeout == 1
MaxNegTimeout == 2
MaxHooks == 2
MaxStops == 2
MaxEvents == 4
MaxFlagHooks == 1
MaxFlagStops == 1
MaxFlagEvents == 2
MaxSignals == 2
MaxSigEvents == 2
MaxSigHooks == 1
MaxPollers == 2

Timeouts == (0 - MaxNegTimeout) .. MaxTimeout
Calls == 1 .. MaxStops
Pollers == 1 .. MaxPollers

\* http.ConnState values a server reports
ConnStates == {"StateNew", "StateActive", "StateIdle", "StateHijacked", "StateClosed"}

VARIABLES
    w,            \* the *Watcher held by the callers: "unset", "nil" or "ok"
    newErr,       \* error returned by NewWatcher: "unset", "nil" or "err"
    argTimeout,   \* the timeoutMS argument NewWatcher was called with
    timeoutMS,    \* Watcher.timeoutMS
    nHooks,       \* len(Watcher.shutdownHooks)
    accepting,    \* Watcher.accepting
    rwW,          \* acceptingMut is write-locked
    rwR,          \* number of read locks held on acceptingMut
    counter,      \* counter of Watcher.connsWG
    nNew,         \* RecordConnState calls made with StateNew
    nDec,         \* RecordConnState calls made with StateClosed or StateHijacked
    spc,          \* position of the stopper goroutine in OnStop
    callNo,       \* number of OnStop calls started on the watcher
    wpc,          \* call -> position of its waiter goroutine ("none": not running)
    waitChan,     \* call -> number of values buffered in its waitChan
    timerArmed,   \* the time.After timer of the current select is pending
    timerLeft,    \* milliseconds until that timer expires
    timerChan,    \* values buffered in the timer's channel
    branch,       \* select case taken by the current call: "none", "drained", "timeout"
    hookIdx,      \* index of the next hook in RunHooks' range loop
    hookLog,      \* start and return events of the hooks in the current call
    firstErr,     \* first hook that returned an error in the current call, 0 if none
    rhRet,        \* value RunHooks returned in the current call
    hookRuns,     \* hook -> number of times it has run to its return, all calls together
    ret,          \* value the last OnStop call returned
    crashed,      \* the process has ended: an unrecovered panic, or os.Exit
    everPanicked, \* some RecordConnState call has panicked
    calmZero,     \* history: counter was 0 at the current OnStop call, no Add/Done since
    openAtCall,   \* history: counter was > 0 at the current OnStop call
    stayedPos,    \* history: counter > 0 from the current OnStop call until the timer
                  \* fired (until now, while it has not fired)
    zeroInTime,   \* history: during the current call an Add/Done brought the counter to
                  \* 0 with a millisecond or more of the timeout left, none came since
    timerFired,   \* history: the timer of the current call has fired
    sawZero,      \* history: the counter was 0 at some moment between the current
                  \* OnStop call and the moment its select took a case
    apc,          \* position of the goroutine that calls Accepting
    aArg,         \* its argument acceptingState
    aRet,         \* value the last Accepting call returned
    ipc,          \* position of the goroutine that calls IsAccepting
    iState,       \* its local acceptingState
    iRet,         \* value the last IsAccepting call returned
    lastDone,     \* history: the value last written to the flag, once the Accepting
                  \* call that wrote it has returned ("none" until then)
    stopWrote,    \* history: OnStop wrote the flag, no Accepting(true) wrote it since
    callWrote,    \* history: the current OnStop call has written the flag
    iExp,         \* history: lastDone when the last IsAccepting call took the read lock
    iStop,        \* history: stopWrote when the last IsAccepting call took the read lock
    sawOther,     \* history (kept by RecordConnStateSeen): a state that is neither
                  \* new, closed nor hijacked has been reported since the current
                  \* OnStop call was made (since NewWatcher, before the first)
    hpc,          \* position of the goroutine that runs SigHandle ("none": not started)
    hCall,        \* callNo when SigHandle took the signal it is handling
    stopErr,      \* SigHandle's local stopErr
    sigChan,      \* signals buffered in the channel sigs
    nSig,         \* signals the operating system has raised
    exitChan,     \* codes buffered in the channel exitcode
    sent,         \* history: codes SigHandle has sent for the signal it took last
    mpc,          \* position of the goroutine that receives the exit code
    exitCode,     \* the code it received (0 until then)
    ppc,          \* poller -> position of a further goroutine that calls IsAccepting
    pState        \* poller -> its local acceptingState

vars == << w, newErr, argTimeout, timeoutMS, nHooks, accepting, rwW, rwR, counter, nNew, nDec,
           spc, callNo, wpc, waitChan, timerArmed, timerLeft, timerChan, branch,
           hookIdx, hookLog, firstErr, rhRet, hookRuns, ret, crashed, everPanicked,
           calmZero, openAtCall, stayedPos, zeroInTime, timerFired, sawZero,
           apc, aArg, aRet, ipc, iState, iRet, lastDone, stopWrote, callWrote,
           iExp, iStop, sawOther,
           hpc, hCall, stopErr, sigChan, nSig, exitChan, sent, mpc, exitCode,
           ppc, pState >>

watcherVars == << w, newErr, argTimeout, timeoutMS, nHooks >>
lockVars == << accepting, rwW, rwR >>
tallyVars == << nNew, nDec >>
waiterVars == << wpc, waitChan >>
timerVars == << timerArmed, timerLeft, timerChan >>
hookVars == << hookIdx, hookLog, firstErr, rhRet, hookRuns >>
histVars == << calmZero, openAtCall, stayedPos, zeroInTime, timerFired, sawZero >>
writerVars == << apc, aArg, aRet >>
readerVars == << ipc, iState, iRet >>
flagHistVars == << lastDone, stopWrote, callWrote, iExp, iStop >>
clientVars == << writerVars, readerVars, flagHistVars, sawOther >>
sigVars == << hpc, hCall, stopErr, sigChan, nSig, exitChan, sent, mpc, exitCode >>
pollerVars == << ppc, pState >>
daemonVars == << sigVars, pollerVars >>

\* ------------------------------------------------------------ construction
\* faulty variant: NewWatcher that also rejects 0, as its error text
\* ("timeout must be a positive number") would have it
NewWatcherFailsNonPositive(t) == t <= 0

\* NewWatcher rejects a timeout below zero
NewWatcherFails(t) == t < 0

\* value NewWatcher stores in w.accepting
NewAccepting == FALSE

\* counter of the sync.WaitGroup NewWatcher allocates
NewCounter == 0

Init ==
    /\ w = "unset" /\ newErr = "unset" /\ argTimeout = 0
    /\ timeoutMS = 0 /\ nHooks = 0
    /\ accepting = FALSE /\ rwW = FALSE /\ rwR = 0
    /\ counter = 0
    /\ nNew = 0 /\ nDec = 0
    /\ spc = "idle" /\ callNo = 0
    /\ wpc = [k \in Calls |-> "none"]
    /\ waitChan = [k \in Calls |-> 0]
    /\ timerArmed = FALSE /\ timerLeft = 0 /\ timerChan = 0
    /\ branch = "none"
    /\ hookIdx = 1 /\ hookLog = << >> /\ firstErr = 0 /\ rhRet = "unset"
    /\ hookRuns = [i \in 1 .. MaxHooks |-> 0]
    /\ ret = "none"
    /\ crashed = FALSE /\ everPanicked = FALSE
    /\ calmZero = FALSE /\ openAtCall = FALSE /\ stayedPos = FALSE
    /\ zeroInTime = FALSE /\ timerFired = FALSE /\ sawZero = FALSE
    /\ apc = "idle" /\ aArg = FALSE /\ aRet = "none"
    /\ ipc = "idle" /\ iState = FALSE /\ iRet = "none"
    /\ lastDone = "none" /\ stopWrote = FALSE /\ callWrote = FALSE
    /\ iExp = "none" /\ iStop = FALSE
    /\ sawOther = FALSE
    /\ hpc = "none" /\ hCall = 0 /\ stopErr = "none"
    /\ sigChan = << >> /\ nSig = 0
    /\ exitChan = << >> /\ sent = << >>
    /\ mpc = "none" /\ exitCode = 0
    /\ ppc = [p \in Pollers |-> "idle"]
    /\ pState = [p \in Pollers |-> FALSE]

NewWatcher(t, n) ==
    /\ ~crashed
    /\ w = "unset"
    /\ argTimeout' = t
    /\ IF NewWatcherFails(t)
       THEN /\ w' = "nil" /\ newErr' = "err"
            /\ UNCHANGED << timeoutMS, nHooks, accepting, counter >>
       ELSE /\ w' = "ok" /\ newErr' = "nil"
            /\ timeoutMS' = t
            /\ nHooks' = n
            /\ accepting' = NewAccepting
            /\ counter' = NewCounter
    /\ UNCHANGED << rwW, rwR, tallyVars, spc, callNo, waiterVars, timerVars,
                    branch, hookVars, ret, crashed, everPanicked, histVars,
                    clientVars, daemonVars >>

\* a boolean as it is kept in the history variables, beside "none"
BoolStr(b) == IF b THEN "true" ELSE "false"

\* ------------------------------------------------------- RecordConnState
\* faulty variant: a switch without the http.StateHijacked case
ConnDeltaNoHijack(st) ==
    CASE st = "StateNew" -> 1
      [] st = "StateClosed" -> -1
      [] OTHER -> 0

\* faulty variant: a switch that counts an active connection as a new one
ConnDeltaCountsActive(st) ==
    CASE st \in {"StateNew", "StateActive"} -> 1
      [] st \in {"StateClosed", "StateHijacked"} -> -1
      [] OTHER -> 0

\* faulty variant: a switch that counts new connections only while accepting
ConnDeltaWhileAccepting(st) ==
    CASE st = "StateNew" -> IF accepting THEN 1 ELSE 0
      [] st \in {"StateClosed", "StateHijacked"} -> -1
      [] OTHER -> 0

\* the switch of RecordConnState: what the call adds to connsWG
ConnDelta(st) ==
    CASE st = "StateNew" -> 1
      [] st \in {"StateClosed", "StateHijacked"} -> -1
      [] OTHER -> 0

\* sync.WaitGroup.Add: the counter after adding delta
WGAdd(v, delta) == v + delta

\* faulty variant: a counter that goes below zero silently
WGNeverPanics(v) == FALSE

\* sync.WaitGroup.Add panics when the counter it has stored is negative
WGPanics(v) == v < 0

\* faulty variant: a blocked Wait is not woken when the counter becomes zero
WGReleaseNone(v, pcs) == pcs

\* Add that brings the counter to zero releases every goroutine blocked in Wait
WGRelease(v, pcs) ==
    IF v = 0 THEN [k \in Calls |-> IF pcs[k] = "blocked" THEN "released" ELSE pcs[k]]
             ELSE pcs

\* an OnStop call is in progress
InCall == spc # "idle"

\* an OnStop call is in progress and its select has not taken a case yet
Racing == spc \in {"accLock", "accWrite", "accUnlock", "spawn", "timer", "poll", "parked"}

\* milliseconds of the current call's timeout that are still to pass before
\* its timer expires (0 outside the race)
RemainingMS ==
    IF spc \in {"accLock", "accWrite", "accUnlock", "spawn", "timer"} THEN timeoutMS
    ELSE IF timerArmed THEN timerLeft
    ELSE 0

\* RecordConnState(st) on a constructed watcher.  When Done panics, the panic
\* either ends the process or is recovered by the caller (recovered).
RecordConnState(st, recovered) ==
    /\ ~crashed
    /\ w = "ok"
    /\ st \in {"StateNew", "StateClosed", "StateHijacked"} => nNew + nDec < MaxEvents
    /\ nNew' = IF st = "StateNew" THEN nNew + 1 ELSE nNew
    /\ nDec' = IF st \in {"StateClosed", "StateHijacked"} THEN nDec + 1 ELSE nDec
    /\ LET d == ConnDelta(st)
           v == WGAdd(counter, d)
       IN IF d = 0
          THEN /\ recovered
               /\ UNCHANGED << counter, wpc, crashed, everPanicked,
                               calmZero, stayedPos, zeroInTime, sawZero >>
          ELSE /\ counter' = v
               /\ IF WGPanics(v)
                  THEN /\ everPanicked' = TRUE
                       /\ crashed' = ~recovered
                       /\ wpc' = wpc
                  ELSE /\ recovered
                       /\ UNCHANGED << everPanicked, crashed >>
                       /\ wpc' = WGRelease(v, wpc)
               /\ calmZero' = (calmZero /\ ~InCall)
               /\ stayedPos' = IF Racing /\ ~timerFired THEN stayedPos /\ v > 0
                                                         ELSE stayedPos
               /\ zeroInTime' = IF Racing THEN v = 0 /\ RemainingMS >= 1
                                          ELSE zeroInTime
               /\ sawZero' = IF Racing THEN sawZero \/ v = 0 ELSE sawZero
    /\ UNCHANGED << watcherVars, daemonVars, writerVars, readerVars, flagHistVars, lockVars, spc,
                    callNo, waitChan, timerVars, branch, hookVars, ret, openAtCall,
                    timerFired >>

\* RecordConnState on a nil receiver panics before it looks at the state
RecordConnStateNil(recovered) ==
    /\ ~crashed
    /\ w = "nil"
    /\ everPanicked' = TRUE
    /\ crashed' = ~recovered
    /\ UNCHANGED << watcherVars, daemonVars, clientVars, lockVars, counter, tallyVars, spc, callNo, waiterVars,
                    timerVars, branch, hookVars, ret, histVars >>

\* ------------------------------------------------------------ acceptingMut
\* faulty variant: a Lock that waits for the writer only, not for the readers
RWCanLockIgnoresReaders(wl, rl) == ~wl

\* sync.RWMutex.Lock goes on when no writer and no reader holds the lock
RWCanLock(wl, rl) == ~wl /\ rl = 0

\* faulty variant: an RLock that does not wait for the writer
RWCanRLockAlways(wl) == TRUE

\* sync.RWMutex.RLock goes on when no writer holds the lock
RWCanRLock(wl) == ~wl

\* ----------------------------------------------------------------- OnStop
\* faulty variant: OnStop that reports a failed hook as a failed shutdown
OnStopResultHooks(b) == IF b = "drained" /\ firstErr = 0 THEN "nil" ELSE "ErrTimedOut"

\* the error OnStop returns for the select case it took
OnStopResult(b) == IF b = "drained" THEN "nil" ELSE "ErrTimedOut"

\* the error OnStop returns on a nil receiver
OnStopNilResult == "ErrNilReceiver"

\* OnStop on a nil receiver returns an error at once
OnStopNil ==
    /\ ~crashed
    /\ w = "nil"
    /\ spc = "idle"
    /\ ret' = OnStopNilResult
    /\ UNCHANGED << watcherVars, daemonVars, clientVars, lockVars, counter, tallyVars, spc, callNo, waiterVars,
                    timerVars, branch, hookVars, crashed, everPanicked, histVars >>

\* OnStop is entered on a constructed watcher
OnStopCall ==
    /\ ~crashed
    /\ w = "ok"
    /\ spc = "idle"
    /\ callNo < MaxStops
    /\ callNo' = callNo + 1
    /\ spc' = "accLock"
    /\ branch' = "none"
    /\ hookIdx' = 1 /\ hookLog' = << >> /\ firstErr' = 0 /\ rhRet' = "unset"
    /\ hookRuns' = hookRuns
    /\ calmZero' = (counter = 0)
    /\ openAtCall' = (counter > 0)
    /\ stayedPos' = (counter > 0)
    /\ zeroInTime' = FALSE
    /\ timerFired' = FALSE
    /\ sawZero' = (counter = 0)
    /\ callWrote' = FALSE
    /\ sawOther' = FALSE
    /\ UNCHANGED << watcherVars, daemonVars, writerVars, readerVars, lastDone, stopWrote, iExp, iStop,
                    lockVars, counter, tallyVars, waiterVars, timerVars,
                    ret, crashed, everPanicked >>

\* w.Accepting(false): acceptingMut.Lock()
OnStopAccLock ==
    /\ ~crashed
    /\ spc = "accLock"
    /\ RWCanLock(rwW, rwR)
    /\ rwW' = TRUE
    /\ spc' = "accWrite"
    /\ UNCHANGED << watcherVars, daemonVars, clientVars, accepting, rwR, counter, tallyVars, callNo, waiterVars,
                    timerVars, branch, hookVars, ret, crashed, everPanicked, histVars >>

\* faulty variant: an OnStop that leaves the daemon accepting
OnStopAcceptingTrue == TRUE

\* the argument of the Accepting call OnStop makes
OnStopAccepting == FALSE

\* w.Accepting(false): w.accepting = acceptingState
OnStopAccWrite ==
    /\ ~crashed
    /\ spc = "accWrite"
    /\ accepting' = OnStopAccepting
    /\ spc' = "accUnlock"
    /\ lastDone' = "none"
    /\ stopWrote' = TRUE
    /\ callWrote' = TRUE
    /\ UNCHANGED << watcherVars, daemonVars, writerVars, readerVars, iExp, iStop, sawOther, rwW, rwR, counter, tallyVars, callNo, waiterVars,
                    timerVars, branch, hookVars, ret, crashed, everPanicked, histVars >>

\* faulty variant: an Accepting(false) in OnStop that returns with the lock
\* held, as it would without its Unlock
OnStopAccUnlockKeepsLock ==
    /\ ~crashed
    /\ spc = "accUnlock"
    /\ rwW' = rwW
    /\ spc' = "spawn"
    /\ lastDone' = BoolStr(accepting)
    /\ UNCHANGED << watcherVars, daemonVars, writerVars, readerVars, stopWrote, callWrote, iExp, iStop,
                    sawOther, accepting, rwR, counter, tallyVars, callNo, waiterVars,
                    timerVars, branch, hookVars, ret, crashed, everPanicked, histVars >>

\* w.Accepting(false): acceptingMut.Unlock()
OnStopAccUnlock ==
    /\ ~crashed
    /\ spc = "accUnlock"
    /\ rwW' = FALSE
    /\ spc' = "spawn"
    /\ lastDone' = BoolStr(accepting)
    /\ UNCHANGED << watcherVars, daemonVars, writerVars, readerVars, stopWrote, callWrote, iExp, iStop,
                    sawOther, accepting, rwR, counter, tallyVars, callNo, waiterVars,
                    timerVars, branch, hookVars, ret, crashed, everPanicked, histVars >>

\* waitChan := make(chan bool, 1); go func() { ... }()
OnStopSpawn ==
    /\ ~crashed
    /\ spc = "spawn"
    /\ waitChan' = [waitChan EXCEPT ![callNo] = 0]
    /\ wpc' = [wpc EXCEPT ![callNo] = "start"]
    /\ spc' = "timer"
    /\ UNCHANGED << watcherVars, daemonVars, clientVars, lockVars, counter, tallyVars, callNo, timerVars,
                    branch, hookVars, ret, crashed, everPanicked, histVars >>

\* the select evaluates time.After(timeoutMS ms): the timer starts
OnStopTimer ==
    /\ ~crashed
    /\ spc = "timer"
    /\ timerArmed' = TRUE
    /\ timerLeft' = timeoutMS
    /\ timerChan' = 0
    /\ spc' = "poll"
    /\ UNCHANGED << watcherVars, daemonVars, clientVars, lockVars, counter, tallyVars, callNo, waiterVars,
                    branch, hookVars, ret, crashed, everPanicked, histVars >>

\* the select cases that can proceed when the select looks at its channels
ReadyCases(wc, tc) ==
    (IF wc > 0 THEN {"drained"} ELSE {}) \cup (IF tc > 0 THEN {"timeout"} ELSE {})

\* faulty variant: a select with a default clause, which goes on to the hooks
\* when no case is ready
OnStopPollDefault ==
    /\ ~crashed
    /\ spc = "poll"
    /\ LET ready == ReadyCases(waitChan[callNo], timerChan)
       IN IF ready = {}
          THEN /\ spc' = "hooks"
               /\ UNCHANGED << branch, waitChan, timerVars >>
          ELSE \E b \in ready :
               /\ branch' = b
               /\ spc' = "hooks"
               /\ waitChan' = [waitChan EXCEPT ![callNo] = 0]
               /\ timerChan' = 0
               /\ timerArmed' = FALSE
               /\ timerLeft' = 0
    /\ UNCHANGED << watcherVars, daemonVars, clientVars, lockVars, counter, tallyVars, callNo, wpc,
                    hookVars, ret, crashed, everPanicked, histVars >>

\* the select takes one of the cases that are ready (the other channel is
\* never read again), or blocks on both channels
OnStopPoll ==
    /\ ~crashed
    /\ spc = "poll"
    /\ LET ready == ReadyCases(waitChan[callNo], timerChan)
       IN IF ready = {}
          THEN /\ spc' = "parked"
               /\ UNCHANGED << branch, waitChan, timerVars >>
          ELSE \E b \in ready :
               /\ branch' = b
               /\ spc' = "hooks"
               /\ waitChan' = [waitChan EXCEPT ![callNo] = 0]
               /\ timerChan' = 0
               /\ timerArmed' = FALSE
               /\ timerLeft' = 0
    /\ UNCHANGED << watcherVars, daemonVars, clientVars, lockVars, counter, tallyVars, callNo, wpc,
                    hookVars, ret, crashed, everPanicked, histVars >>

\* ------------------------------------------------- the waiter goroutine
\* faulty variant: a Wait that returns at once whatever the counter
WGWaitNeverBlocks(v) == TRUE

\* sync.WaitGroup.Wait returns without blocking when the counter is zero
WGWaitReturns(v) == v = 0

\* w.connsWG.Wait() is called by the goroutine of call k
WaiterWait(k) ==
    /\ ~crashed
    /\ wpc[k] = "start"
    /\ wpc' = [wpc EXCEPT ![k] = IF WGWaitReturns(counter) THEN "woke" ELSE "blocked"]
    /\ UNCHANGED << watcherVars, daemonVars, clientVars, lockVars, counter, tallyVars, spc, callNo, waitChan,
                    timerVars, branch, hookVars, ret, crashed, everPanicked, histVars >>

\* a released Wait panics ("WaitGroup is reused before previous Wait has
\* returned") when it finds the counter changed again before it has returned
WGReused(v) == v # 0

\* the goroutine of call k, released from Wait, runs again.  A panic in this
\* goroutine cannot be recovered by any caller: it ends the process.
WaiterWake(k) ==
    /\ ~crashed
    /\ wpc[k] = "released"
    /\ IF WGReused(counter)
       THEN crashed' = TRUE /\ wpc' = wpc
       ELSE crashed' = FALSE /\ wpc' = [wpc EXCEPT ![k] = "woke"]
    /\ UNCHANGED << watcherVars, daemonVars, clientVars, lockVars, counter, tallyVars, spc, callNo, waitChan,
                    timerVars, branch, hookVars, ret, everPanicked, histVars >>

\* waitChan <- true, after which the goroutine ends.  The value is handed to
\* the select when it is blocked on this channel; it is buffered (capacity 1,
\* one send per channel) while the select is still to come; after the select
\* has taken the timer's case nothing reads the channel again.
WaiterSend(k) ==
    /\ ~crashed
    /\ wpc[k] = "woke"
    /\ wpc' = [wpc EXCEPT ![k] = "none"]
    /\ IF k = callNo /\ spc = "parked"
       THEN /\ branch' = "drained"
            /\ spc' = "hooks"
            /\ timerArmed' = FALSE /\ timerLeft' = 0 /\ timerChan' = 0
            /\ waitChan' = waitChan
       ELSE /\ waitChan' = IF k = callNo /\ spc \in {"timer", "poll"}
                           THEN [waitChan EXCEPT ![k] = 1]
                           ELSE waitChan
            /\ UNCHANGED << branch, spc, timerVars >>
    /\ UNCHANGED << watcherVars, daemonVars, clientVars, lockVars, counter, tallyVars, callNo,
                    hookVars, ret, crashed, everPanicked, histVars >>

\* ---------------------------------------------------------------- timer
\* the timer expires: its value is handed to the select when it is blocked,
\* buffered in the timer's channel otherwise
TimerFire ==
    /\ ~crashed
    /\ timerArmed
    /\ timerLeft = 0
    /\ timerArmed' = FALSE
    /\ timerLeft' = 0
    /\ timerFired' = TRUE
    /\ IF spc = "parked"
       THEN /\ branch' = "timeout"
            /\ spc' = "hooks"
            /\ timerChan' = 0
       ELSE /\ timerChan' = 1
            /\ UNCHANGED << branch, spc >>
    /\ UNCHANGED << watcherVars, daemonVars, clientVars, lockVars, counter, tallyVars, callNo, waiterVars,
                    hookVars, ret, crashed, everPanicked, calmZero, openAtCall,
                    stayedPos, zeroInTime, sawZero >>

\* a goroutine of the watcher has a step it can take now
GoroutineStepEnabled ==
    \/ spc = "poll"
    \/ \E k \in Calls : wpc[k] \in {"start", "released", "woke"}

\* one millisecond passes
Tick ==
    /\ ~crashed
    /\ timerArmed
    /\ timerLeft > 0
    /\ ~GoroutineStepEnabled
    /\ timerLeft' = timerLeft - 1
    /\ UNCHANGED << watcherVars, daemonVars, clientVars, lockVars, counter, tallyVars, spc, callNo, waiterVars,
                    timerArmed, timerChan, branch, hookVars, ret, crashed,
                    everPanicked, histVars >>

\* -------------------------------------------------------------- RunHooks
HookResults == {"nil", "err"}

\* faulty variant: a loop that stops at the first hook that fails
NextHookStopOnErr(i, res) == IF res = "err" THEN nHooks + 1 ELSE i + 1

\* the range loop goes on to the next hook whatever the hook returned
NextHook(i, res) == i + 1

\* faulty variant: RunHooks that returns the hooks' failure
RunHooksResultErr(failed) == IF failed = 0 THEN "nil" ELSE "err"

\* value RunHooks returns after the loop, given the first hook that failed
RunHooksResult(failed) == "nil"

\* the range loop calls hook hookIdx
HookStart ==
    /\ ~crashed
    /\ spc = "hooks"
    /\ hookIdx <= nHooks
    /\ hookLog' = Append(hookLog, << "start", hookIdx >>)
    /\ spc' = "inHook"
    /\ UNCHANGED << watcherVars, daemonVars, clientVars, lockVars, counter, tallyVars, callNo, waiterVars,
                    timerVars, branch, hookIdx, firstErr, rhRet, hookRuns, ret, crashed,
                    everPanicked, histVars >>

\* the hook returns res; an error is logged and the loop goes on
HookReturn(res) ==
    /\ ~crashed
    /\ spc = "inHook"
    /\ hookLog' = Append(hookLog, << "return", hookIdx >>)
    /\ firstErr' = IF res = "err" /\ firstErr = 0 THEN hookIdx ELSE firstErr
    /\ hookIdx' = NextHook(hookIdx, res)
    /\ hookRuns' = [hookRuns EXCEPT ![hookIdx] = @ + 1]
    /\ spc' = "hooks"
    /\ UNCHANGED << watcherVars, daemonVars, clientVars, lockVars, counter, tallyVars, callNo, waiterVars,
                    timerVars, branch, rhRet, ret, crashed, everPanicked, histVars >>

\* the loop is over: RunHooks returns
RunHooksReturn ==
    /\ ~crashed
    /\ spc = "hooks"
    /\ hookIdx > nHooks
    /\ rhRet' = RunHooksResult(firstErr)
    /\ spc' = "ret"
    /\ UNCHANGED << watcherVars, daemonVars, clientVars, lockVars, counter, tallyVars, callNo, waiterVars,
                    timerVars, branch, hookIdx, hookLog, firstErr, hookRuns, ret, crashed,
                    everPanicked, histVars >>

\* faulty variant: an OnStop that goes back to the select after a timeout
OnStopReturnRetry ==
    /\ ~crashed
    /\ spc = "ret"
    /\ IF branch = "timeout"
       THEN /\ spc' = "timer" /\ branch' = "none" /\ ret' = ret
       ELSE /\ spc' = "idle" /\ branch' = branch /\ ret' = OnStopResult(branch)
    /\ UNCHANGED << watcherVars, daemonVars, clientVars, lockVars, counter, tallyVars, callNo, waiterVars,
                    timerVars, hookVars, crashed, everPanicked, histVars >>

\* OnStop returns nil or the timed-out error, by the select case taken
OnStopReturn ==
    /\ ~crashed
    /\ spc = "ret"
    /\ ret' = OnStopResult(branch)
    /\ spc' = "idle"
    /\ UNCHANGED << watcherVars, daemonVars, clientVars, lockVars, counter, tallyVars, callNo, waiterVars,
                    timerVars, branch, hookVars, crashed, everPanicked, histVars >>

\* ------------------------------------------------------------- Accepting
\* faulty variant: an Accepting that returns nil on a nil receiver, as it
\* would if it did not test the receiver
AcceptingNilResultNil == "nil"

\* the error Accepting returns on a nil receiver
AcceptingNilResult == "ErrNilReceiver"

\* Accepting on a nil receiver returns an error at once
AcceptingNil ==
    /\ ~crashed
    /\ w = "nil"
    /\ apc = "idle"
    /\ aRet' = AcceptingNilResult
    /\ UNCHANGED << watcherVars, daemonVars, lockVars, counter, tallyVars, spc, callNo, waiterVars,
                    timerVars, branch, hookVars, ret, crashed, everPanicked, histVars,
                    apc, aArg, readerVars, flagHistVars, sawOther >>

\* Accepting(b) on a constructed watcher, called by another goroutine or by
\* the hook that is running: w.acceptingMut.Lock(), which waits until no
\* writer and no reader holds the lock, and w.accepting = acceptingState.  No
\* other goroutine can look at the flag between the two.
AcceptingLock(b) ==
    /\ ~crashed
    /\ w = "ok"
    /\ apc = "idle"
    /\ RWCanLock(rwW, rwR)
    /\ rwW' = TRUE
    /\ apc' = "locked"
    /\ aArg' = b
    /\ accepting' = b
    /\ lastDone' = "none"
    /\ stopWrote' = (stopWrote /\ ~b)
    /\ UNCHANGED << watcherVars, daemonVars, rwR, counter, tallyVars, spc, callNo,
                    waiterVars, timerVars, branch, hookVars, ret, crashed, everPanicked,
                    histVars, aRet, readerVars, callWrote, iExp, iStop, sawOther >>

\* w.acceptingMut.Unlock(); return nil
AcceptingReturn ==
    /\ ~crashed
    /\ apc = "locked"
    /\ rwW' = FALSE
    /\ apc' = "idle"
    /\ aArg' = FALSE
    /\ aRet' = "nil"
    /\ lastDone' = BoolStr(accepting)
    /\ UNCHANGED << watcherVars, daemonVars, accepting, rwR, counter, tallyVars, spc, callNo,
                    waiterVars, timerVars, branch, hookVars, ret, crashed, everPanicked,
                    histVars, readerVars, stopWrote, callWrote, iExp, iStop, sawOther >>

\* ----------------------------------------------------------- IsAccepting
\* what IsAccepting returns on a nil receiver: false and an error
IsAcceptingNilResult == "ErrNilReceiver"

\* IsAccepting on a nil receiver returns an error at once
IsAcceptingNil ==
    /\ ~crashed
    /\ w = "nil"
    /\ ipc = "idle"
    /\ iRet' = IsAcceptingNilResult
    /\ UNCHANGED << watcherVars, daemonVars, lockVars, counter, tallyVars, spc, callNo, waiterVars,
                    timerVars, branch, hookVars, ret, crashed, everPanicked, histVars,
                    writerVars, ipc, iState, flagHistVars, sawOther >>

\* faulty variant: a read of a copy of the flag made when the watcher was built
IsAcceptingReadStale(a) == NewAccepting

\* acceptingState := w.accepting
IsAcceptingReadValue(a) == a

\* IsAccepting on a constructed watcher, called by another goroutine or by the
\* hook that is running: w.acceptingMut.RLock(), which waits until no writer
\* holds the lock, and the read of the flag.  No goroutine can write the flag
\* between the two.
IsAcceptingRLock ==
    /\ ~crashed
    /\ w = "ok"
    /\ ipc = "idle"
    /\ RWCanRLock(rwW)
    /\ rwR' = rwR + 1
    /\ ipc' = "rlocked"
    /\ iState' = IsAcceptingReadValue(accepting)
    /\ iRet' = "none"
    /\ iExp' = lastDone
    /\ iStop' = stopWrote
    /\ UNCHANGED << watcherVars, daemonVars, accepting, rwW, counter, tallyVars, spc, callNo,
                    waiterVars, timerVars, branch, hookVars, ret, crashed, everPanicked,
                    histVars, writerVars, lastDone, stopWrote, callWrote, sawOther >>

\* w.acceptingMut.RUnlock(); return acceptingState, nil
IsAcceptingReturn ==
    /\ ~crashed
    /\ ipc = "rlocked"
    /\ rwR' = rwR - 1
    /\ ipc' = "idle"
    /\ iRet' = BoolStr(iState)
    /\ iState' = FALSE
    /\ UNCHANGED << watcherVars, daemonVars, accepting, rwW, counter, tallyVars, spc, callNo,
                    waiterVars, timerVars, branch, hookVars, ret, crashed, everPanicked,
                    histVars, writerVars, flagHistVars, sawOther >>

\* IsAccepting called by a further goroutine p that polls the flag:
\* w.acceptingMut.RLock() and acceptingState := w.accepting
PollerRLock(p) ==
    /\ ~crashed
    /\ w = "ok"
    /\ ppc[p] = "idle"
    /\ RWCanRLock(rwW)
    /\ rwR' = rwR + 1
    /\ ppc' = [ppc EXCEPT ![p] = "rlocked"]
    /\ pState' = [pState EXCEPT ![p] = IsAcceptingReadValue(accepting)]
    /\ UNCHANGED << watcherVars, clientVars, sigVars, accepting, rwW, counter, tallyVars,
                    spc, callNo, waiterVars, timerVars, branch, hookVars, ret, crashed,
                    everPanicked, histVars >>

\* w.acceptingMut.RUnlock(); return acceptingState, nil
PollerReturn(p) ==
    /\ ~crashed
    /\ ppc[p] = "rlocked"
    /\ rwR' = rwR - 1
    /\ ppc' = [ppc EXCEPT ![p] = "idle"]
    /\ pState' = [pState EXCEPT ![p] = FALSE]
    /\ UNCHANGED << watcherVars, clientVars, sigVars, accepting, rwW, counter, tallyVars,
                    spc, callNo, waiterVars, timerVars, branch, hookVars, ret, crashed,
                    everPanicked, histVars >>

\* RecordConnState, with the record of the states it ignores
RecordConnStateSeen(st, recovered) ==
    /\ RecordConnState(st, recovered)
    /\ sawOther' = (sawOther \/ st \in {"StateActive", "StateIdle"})

\* ------------------------------------------------------------- SigHandle
\* signals the operating system may raise
Signals == {"SIGTERM", "SIGQUIT", "SIGHUP", "SIGINT", "SIGUSR1"}

\* the signals SigHandle takes as a request to stop
StopSignals == {"SIGTERM", "SIGQUIT", "SIGHUP"}

\* sigs := make(chan os.Signal, 1)
SigChanCap == 1

\* exitcode := make(chan int, 1)
ExitChanCap == 1

\* The daemon's main goroutine makes the two channels, registers sigs with
\* signal.Notify, starts SigHandle in a goroutine and waits for an exit code.
SigHandleStart ==
    /\ ~crashed
    /\ w = "ok"
    /\ hpc = "none"
    /\ hpc' = "range"
    /\ mpc' = "wait"
    /\ UNCHANGED << watcherVars, clientVars, pollerVars, lockVars, counter, tallyVars, spc,
                    callNo, waiterVars, timerVars, branch, hookVars, ret, crashed,
                    everPanicked, histVars,
                    hCall, stopErr, sigChan, nSig, exitChan, sent, exitCode >>

\* SigHandle on a nil watcher panics, in a goroutine of its own
SigHandleNil ==
    /\ ~crashed
    /\ w = "nil"
    /\ hpc = "none"
    /\ crashed' = TRUE
    /\ UNCHANGED << watcherVars, clientVars, daemonVars, lockVars, counter, tallyVars, spc,
                    callNo, waiterVars, timerVars, branch, hookVars, ret,
                    everPanicked, histVars >>

\* The operating system raises a signal.  signal.Notify does not block: the
\* signal is dropped when the channel is full.
Signal(sig) ==
    /\ ~crashed
    /\ hpc # "none"
    /\ nSig < MaxSignals
    /\ nSig' = nSig + 1
    /\ sigChan' = IF Len(sigChan) < SigChanCap THEN Append(sigChan, sig) ELSE sigChan
    /\ UNCHANGED << watcherVars, clientVars, pollerVars, lockVars, counter, tallyVars, spc,
                    callNo, waiterVars, timerVars, branch, hookVars, ret, crashed,
                    everPanicked, histVars,
                    hpc, hCall, stopErr, exitChan, sent, mpc, exitCode >>

\* for sig := range sigs: the loop takes a signal.  A stop signal leads to the
\* call of w.OnStop(), SIGINT to a panic, any other signal to nothing.
SigHandleRecv ==
    /\ ~crashed
    /\ hpc = "range"
    /\ sigChan # << >>
    /\ sigChan' = Tail(sigChan)
    /\ LET sig == Head(sigChan)
       IN IF sig \in StopSignals
          THEN /\ hpc' = "stop"
               /\ hCall' = callNo
               /\ sent' = << >>
               /\ crashed' = crashed
          ELSE /\ crashed' = (sig = "SIGINT")
               /\ UNCHANGED << hpc, hCall, sent >>
    /\ UNCHANGED << watcherVars, clientVars, pollerVars, lockVars, counter, tallyVars, spc,
                    callNo, waiterVars, timerVars, branch, hookVars, ret,
                    everPanicked, histVars,
                    stopErr, nSig, exitChan, mpc, exitCode >>

\* SigHandle is at its call of w.OnStop()
SigHandleCallsOnStop == hpc = "stop" /\ callNo = hCall

\* the position of SigHandle after the test of stopErr
SigHandleBranch(err) == IF err # "nil" THEN "sendFail" ELSE "sendOK"

\* stopErr := w.OnStop() has returned; if stopErr != nil
SigHandleCheck ==
    /\ ~crashed
    /\ hpc = "stop"
    /\ callNo = hCall + 1
    /\ spc = "idle"
    /\ stopErr' = ret
    /\ hpc' = SigHandleBranch(ret)
    /\ UNCHANGED << watcherVars, clientVars, pollerVars, lockVars, counter, tallyVars, spc,
                    callNo, waiterVars, timerVars, branch, hookVars, ret, crashed,
                    everPanicked, histVars,
                    hCall, sigChan, nSig, exitChan, sent, mpc, exitCode >>

\* exitcode <- 1, inside the if; the send waits while the channel is full.
\* Nothing leaves the loop body here: the handler goes on to the send below.
SigHandleSendFail ==
    /\ ~crashed
    /\ hpc = "sendFail"
    /\ Len(exitChan) < ExitChanCap
    /\ exitChan' = Append(exitChan, 1)
    /\ sent' = Append(sent, 1)
    /\ hpc' = "sendOK"
    /\ UNCHANGED << watcherVars, clientVars, pollerVars, lockVars, counter, tallyVars, spc,
                    callNo, waiterVars, timerVars, branch, hookVars, ret, crashed,
                    everPanicked, histVars,
                    hCall, stopErr, sigChan, nSig, mpc, exitCode >>

\* exitcode <- 0, after the if; then the loop waits for the next signal
SigHandleSendOK ==
    /\ ~crashed
    /\ hpc = "sendOK"
    /\ Len(exitChan) < ExitChanCap
    /\ exitChan' = Append(exitChan, 0)
    /\ sent' = Append(sent, 0)
    /\ hpc' = "range"
    /\ UNCHANGED << watcherVars, clientVars, pollerVars, lockVars, counter, tallyVars, spc,
                    callNo, waiterVars, timerVars, branch, hookVars, ret, crashed,
                    everPanicked, histVars,
                    hCall, stopErr, sigChan, nSig, mpc, exitCode >>

\* code := <-exitcode
MainRecv ==
    /\ ~crashed
    /\ mpc = "wait"
    /\ exitChan # << >>
    /\ exitCode' = Head(exitChan)
    /\ exitChan' = Tail(exitChan)
    /\ mpc' = "got"
    /\ UNCHANGED << watcherVars, clientVars, pollerVars, lockVars, counter, tallyVars, spc,
                    callNo, waiterVars, timerVars, branch, hookVars, ret, crashed,
                    everPanicked, histVars,
                    hpc, hCall, stopErr, sigChan, nSig, sent >>

\* log.Printf("exit with code:%d", code); os.Exit(code): the process ends
MainExit ==
    /\ ~crashed
    /\ mpc = "got"
    /\ mpc' = "exited"
    /\ crashed' = TRUE
    /\ UNCHANGED << watcherVars, clientVars, pollerVars, lockVars, counter, tallyVars, spc,
                    callNo, waiterVars, timerVars, branch, hookVars, ret,
                    everPanicked, histVars,
                    hpc, hCall, stopErr, sigChan, nSig, exitChan, sent, exitCode >>

\* ------------------------------------------------------------ specification
Next ==
    \/ \E t \in Timeouts, n \in 0 .. MaxHooks : NewWatcher(t, n)
    \/ \E st \in ConnStates, recovered \in BOOLEAN :
          RecordConnState(st, recovered) /\ UNCHANGED sawOther
    \/ \E recovered \in BOOLEAN : RecordConnStateNil(recovered)
    \/ OnStopNil
    \/ OnStopCall
    \/ OnStopAccLock
    \/ OnStopAccWrite
    \/ OnStopAccUnlock
    \/ OnStopSpawn
    \/ OnStopTimer
    \/ OnStopPoll
    \/ \E k \in Calls : WaiterWait(k)
    \/ \E k \in Calls : WaiterWake(k)
    \/ \E k \in Calls : WaiterSend(k)
    \/ TimerFire
    \/ Tick
    \/ HookStart
    \/ \E res \in HookResults : HookReturn(res)
    \/ RunHooksReturn
    \/ OnStopReturn

Spec == Init /\ [][Next]_vars

\* the watcher with goroutines that set and poll the accepting flag
NextFlag ==
    \/ \E t \in {0 - MaxNegTimeout, MaxTimeout}, n \in 0 .. MaxFlagHooks : NewWatcher(t, n)
    \/ \E st \in ConnStates, recovered \in BOOLEAN :
          /\ st \in {"StateNew", "StateClosed", "StateHijacked"} =>
                 nNew + nDec < MaxFlagEvents
          /\ RecordConnStateSeen(st, recovered)
    \/ \E recovered \in BOOLEAN : RecordConnStateNil(recovered)
    \/ OnStopNil
    \/ callNo < MaxFlagStops /\ OnStopCall
    \/ OnStopAccLock
    \/ OnStopAccWrite
    \/ OnStopAccUnlock
    \/ OnStopSpawn
    \/ OnStopTimer
    \/ OnStopPoll
    \/ \E k \in Calls : WaiterWait(k)
    \/ \E k \in Calls : WaiterWake(k)
    \/ \E k \in Calls : WaiterSend(k)
    \/ TimerFire
    \/ Tick
    \/ HookStart
    \/ \E res \in HookResults : HookReturn(res)
    \/ RunHooksReturn
    \/ OnStopReturn
    \/ AcceptingNil
    \/ \E b \in BOOLEAN : AcceptingLock(b)
    \/ AcceptingReturn
    \/ IsAcceptingNil
    \/ IsAcceptingRLock
    \/ IsAcceptingReturn

SpecFlag == Init /\ [][NextFlag]_vars


\* the daemon of the package's example: OnStop is called by SigHandle only
NextSig ==
    \/ \E t \in {0 - MaxNegTimeout, MaxTimeout}, n \in 0 .. MaxSigHooks : NewWatcher(t, n)
    \/ \E st \in ConnStates, recovered \in BOOLEAN :
          /\ st \in {"StateNew", "StateClosed", "StateHijacked"} =>
                 nNew + nDec < MaxSigEvents
          /\ RecordConnState(st, recovered)
          /\ UNCHANGED sawOther
    \/ SigHandleCallsOnStop /\ OnStopCall
    \/ OnStopAccLock
    \/ OnStopAccWrite
    \/ OnStopAccUnlock
    \/ OnStopSpawn
    \/ OnStopTimer
    \/ OnStopPoll
    \/ \E k \in Calls : WaiterWait(k)
    \/ \E k \in Calls : WaiterWake(k)
    \/ \E k \in Calls : WaiterSend(k)
    \/ TimerFire
    \/ Tick
    \/ HookStart
    \/ \E res \in HookResults : HookReturn(res)
    \/ RunHooksReturn
    \/ OnStopReturn
    \/ SigHandleStart
    \/ SigHandleNil
    \/ \E sig \in Signals : Signal(sig)
    \/ SigHandleRecv
    \/ SigHandleCheck
    \/ SigHandleSendFail
    \/ SigHandleSendOK
    \/ MainRecv
    \/ MainExit

SpecSig == Init /\ [][NextSig]_vars


\* the watcher with a goroutine that calls Accepting and several that call
\* IsAccepting
NextLock ==
    \/ \E n \in 0 .. MaxFlagHooks : NewWatcher(MaxTimeout, n)
    \/ \E st \in ConnStates, recovered \in BOOLEAN :
          /\ st \in {"StateNew", "StateClosed", "StateHijacked"} =>
                 nNew + nDec < MaxFlagEvents
          /\ RecordConnState(st, recovered)
          /\ UNCHANGED sawOther
    \/ callNo < MaxFlagStops /\ OnStopCall
    \/ OnStopAccLock
    \/ OnStopAccWrite
    \/ OnStopAccUnlock
    \/ OnStopSpawn
    \/ OnStopTimer
    \/ OnStopPoll
    \/ \E k \in Calls : WaiterWait(k)
    \/ \E k \in Calls : WaiterWake(k)
    \/ \E k \in Calls : WaiterSend(k)
    \/ TimerFire
    \/ Tick
    \/ HookStart
    \/ \E res \in HookResults : HookReturn(res)
    \/ RunHooksReturn
    \/ OnStopReturn
    \/ \E b \in BOOLEAN : AcceptingLock(b)
    \/ AcceptingReturn
    \/ \E p \in Pollers : PollerRLock(p)
    \/ \E p \in Pollers : PollerReturn(p)

SpecLock == Init /\ [][NextLock]_vars

\* steps of the goroutine that called OnStop; the hooks are taken to return
StopperStep ==
    \/ OnStopAccLock \/ OnStopAccWrite \/ OnStopAccUnlock
    \/ OnStopSpawn \/ OnStopTimer \/ OnStopPoll
    \/ HookStart
    \/ \E res \in HookResults : HookReturn(res)
    \/ RunHooksReturn
    \/ OnStopReturn

\* steps of the waiter goroutines
WaiterStep == \E k \in Calls : WaiterWait(k) \/ WaiterWake(k) \/ WaiterSend(k)

\* the runtime's clock and timer
ClockStep == TimerFire \/ Tick

\* Fair scheduling: a goroutine that can run does run, time passes and hooks
\* return.  Nothing is assumed of the environment: connections need never be
\* opened or closed and OnStop need never be called.
SpecLive ==
    /\ Spec
    /\ WF_vars(StopperStep)
    /\ WF_vars(WaiterStep)
    /\ WF_vars(ClockStep)

\* ------------------------------------------------------------------ claims
\* the stopper holds the value of a completed OnStop call on a constructed watcher
Returned == spc = "idle" /\ branch # "none"

\* C1: whatever the interleaving of RecordConnState calls, the WaitGroup counter
\* equals the number of StateNew calls minus the number of StateClosed and
\* StateHijacked calls: no update is lost.
C1_CounterIsNewMinusDone == counter = nNew - nDec

C1_Witness ==
    /\ nNew = 2 /\ nDec = 2 /\ counter = 0
    /\ InCall
    /\ ~everPanicked

\* C2 as claimed: the counter is never negative in a reachable state.
C2_CounterNeverNegative == counter >= 0

\* C2 as amended: the counter is negative only after a RecordConnState call has
\* panicked (Done at zero stores -1 in the WaitGroup and panics).
C2_NegativeOnlyAfterPanic == counter < 0 => everPanicked

\* the panic was recovered and a drain waiter is blocked on the negative counter
C2_Witness ==
    /\ counter < 0 /\ everPanicked /\ ~crashed
    /\ \E k \in Calls : wpc[k] = "blocked"

\* C3 as claimed: a call of OnStop made with the counter at zero, during which
\* no connection event arrives, returns nil, whatever the timeout.
C3_ZeroAtCallDrains == (Returned /\ calmZero) => ret = "nil"

\* C4 as claimed: when the counter stays above zero from the call of OnStop
\* until the timer fires, OnStop returns the timed-out error; and it returns
\* that error only after the timer has fired.
C4_PositiveUntilFireTimesOut ==
    Returned =>
        /\ (timerFired /\ stayedPos) => ret = "ErrTimedOut"
        /\ ret = "ErrTimedOut" => timerFired

ExpectedLog(n) ==
    [j \in 1 .. 2 * n |-> IF j % 2 = 1 THEN << "start", (j + 1) \div 2 >>
                                        ELSE << "return", j \div 2 >>]

IsPrefix(a, b) == Len(a) <= Len(b) /\ \A j \in 1 .. Len(a) : a[j] = b[j]

\* hook i has been started in the current call
HookStarted(i) == \E j \in 1 .. Len(hookLog) : hookLog[j] = << "start", i >>

\* C6: in every OnStop call, drained or timed out, each registered hook is
\* invoked exactly once, in registration order, each one after the previous
\* one has returned: the hook events of a call are always a prefix of
\* start 1, return 1, start 2, ... and are all of it when OnStop returns.
C6_HooksOnceInOrder ==
    /\ IsPrefix(hookLog, ExpectedLog(nHooks))
    /\ (spc = "ret" \/ Returned) => hookLog = ExpectedLog(nHooks)

C6_Witness ==
    /\ Returned /\ ret = "ErrTimedOut"
    /\ nHooks = 2 /\ firstErr = 1
    /\ hookLog = ExpectedLog(2)

\* C7: when a hook has returned an error, RunHooks has still invoked every
\* later hook by the time it returns, and it returns nil whatever the hooks
\* returned.
C7_HookErrorSkipsNothing ==
    (spc = "ret" \/ Returned) =>
        /\ rhRet = "nil"
        /\ firstErr # 0 => \A i \in firstErr + 1 .. nHooks : HookStarted(i)

C7_Witness ==
    /\ spc = "ret"
    /\ nHooks = 2 /\ firstErr = 1
    /\ HookStarted(2)
    /\ rhRet = "nil"

\* C8: within an OnStop call no hook starts before the select has taken a
\* case, and OnStop has not returned before the last hook has returned.
C8_HooksBetweenRaceAndReturn ==
    /\ (spc = "inHook" \/ Len(hookLog) > 0) => (branch # "none" /\ ~timerArmed)
    /\ Returned => (Len(hookLog) = 2 * nHooks /\ hookIdx = nHooks + 1)

C8_Witness ==
    /\ spc = "inHook" /\ hookIdx = 2
    /\ branch = "drained"

\* C9: the value OnStop returns is decided by the select case alone: nil for
\* the waitChan case and the timed-out error for the timer case, whether or
\* not hooks failed.
C9_ResultByRaceOnly ==
    Returned =>
        /\ ret = "nil" <=> branch = "drained"
        /\ ret = "ErrTimedOut" <=> branch = "timeout"

C9_Witness ==
    /\ Returned /\ branch = "drained"
    /\ nHooks = 2 /\ firstErr = 2
    /\ ret = "nil"

\* the watcher has just been constructed: no operation has been called on it
Fresh == w = "ok" /\ nNew = 0 /\ nDec = 0 /\ callNo = 0

\* C10: NewWatcher returns an error and no watcher for every negative timeout;
\* for every other timeout, 0 included, it returns a watcher and no error,
\* with that timeout, the counter at 0 and accepting false.
C10_NewWatcherContract ==
    /\ w # "unset" =>
          IF argTimeout < 0
          THEN w = "nil" /\ newErr = "err"
          ELSE w = "ok" /\ newErr = "nil" /\ timeoutMS = argTimeout
    /\ Fresh => (counter = 0 /\ accepting = FALSE)

C10_Witness == Fresh /\ argTimeout = 0 /\ newErr = "nil"

\* C15: OnStop takes the waitChan case (and so returns nil) only if the counter
\* was zero at some moment between the call of OnStop and the moment the select
\* took its case; never in a call during which the counter was not zero all
\* that time.
C15_DrainedOnlyAfterZero ==
    /\ branch = "drained" => sawZero
    /\ (Returned /\ ret = "nil") => sawZero

C15_Witness ==
    /\ Returned /\ ret = "nil"
    /\ openAtCall /\ sawZero
    /\ counter > 0

\* the state of the coordinator in the spec's state machine
Phase ==
    IF callNo = 0 THEN "Idle"
    ELSE IF branch = "none" THEN "Draining"
    ELSE "Stopped"

\* C16 as claimed: Stopped is terminal: once an OnStop call has returned, no
\* drain race is started and no hook is run on that watcher any more.
C16_StoppedIsTerminal ==
    [][Returned => (Returned' /\ callNo' = callNo /\ hookRuns' = hookRuns)]_vars

\* C16 as amended: a watcher moves Idle -> Draining when OnStop is called and
\* Draining -> Stopped when the select takes a case; hooks run in Stopped
\* only; Stopped is left by nothing but another call of OnStop, made after the
\* earlier one has returned, which starts a new race (Stopped -> Draining).
C16_StoppedLeftOnlyByOnStop ==
    [][/\ Phase' # Phase =>
            \/ Phase = "Idle" /\ Phase' = "Draining" /\ spc = "idle" /\ spc' = "accLock"
            \/ Phase = "Draining" /\ Phase' = "Stopped" /\ spc \in {"poll", "parked"}
            \/ Phase = "Stopped" /\ Phase' = "Draining" /\ spc = "idle"
                  /\ spc' = "accLock" /\ callNo' = callNo + 1
       /\ hookRuns' # hookRuns => Phase = "Stopped" /\ Phase' = "Stopped"
       /\ (Returned /\ callNo' = callNo) => (Returned' /\ hookRuns' = hookRuns)]_vars

\* a second call has returned: Stopped was left and reached again
C16_Witness ==
    /\ callNo = 2 /\ Returned
    /\ nHooks = 1 /\ hookRuns[1] = 2

\* C17, first half: after k sequential OnStop calls each registered hook has
\* run exactly k times (and k-1 or k times while call k is in progress).
C17_HooksRunOncePerCall ==
    \A i \in 1 .. nHooks :
        /\ hookRuns[i] \in {callNo - 1, callNo}
        /\ (spc = "idle" \/ spc = "ret") => hookRuns[i] = callNo

\* C17, second half: a call made after a call that timed out, with the counter
\* back at zero and no connection event during it, takes the waitChan case.
\* (At spc = "ret" the variable ret still holds what the earlier call returned.)
C17_DrainsAfterTimedOutCall ==
    (spc = "ret" /\ callNo >= 2 /\ ret = "ErrTimedOut" /\ calmZero) => branch = "drained"

\* C17 as claimed: every call of OnStop runs its own race and every hook once
\* more, and a call made after a timed-out call returns nil once the counter
\* is back at zero.
C17_EachCallRacesAgain == C17_HooksRunOncePerCall /\ C17_DrainsAfterTimedOutCall

\* C17 restricted to watchers with a positive timeout
C17_EachCallRacesAgainPositive == timeoutMS > 0 => C17_EachCallRacesAgain


\* C13 as claimed, a RecordConnState call that panicked (a caller's contract
\* violation) set aside: under fair scheduling every OnStop call on a
\* constructed watcher returns, whatever connection events arrive during it.
C13_OnStopReturns == InCall ~> (Returned \/ everPanicked)

\* what does hold: every OnStop call returns unless a panic ends the process
C13_ReturnsUnlessCrashed == InCall ~> (Returned \/ crashed)

\* the waiter goroutine of call k is alive (in a process that is running)
\* although the select of call k has taken the timer's case
Lost(k) ==
    /\ ~crashed
    /\ wpc[k] # "none"
    /\ k < callNo \/ (k = callNo /\ branch = "timeout")

\* C18, first part: no step of a waiter that lost its race changes the counter,
\* the accepting flag, the progress or result of any OnStop call, or ends the
\* process.
C18_LoserChangesNothing ==
    [][\A k \in Calls :
          (Lost(k) /\ (WaiterWait(k) \/ WaiterWake(k) \/ WaiterSend(k))) =>
              UNCHANGED << counter, accepting, spc, branch, ret, timerVars, crashed >>]_vars

\* the same, but for ending the process
C18_LoserChangesNoVariable ==
    [][\A k \in Calls :
          (Lost(k) /\ (WaiterWait(k) \/ WaiterWake(k) \/ WaiterSend(k))) =>
              UNCHANGED << counter, accepting, spc, branch, ret, timerVars >>]_vars

\* C18, second part: a waiter that lost its race never blocks on its send
C18_LoserSendNeverBlocks ==
    \A k \in Calls : (Lost(k) /\ wpc[k] = "woke") => ENABLED WaiterSend(k)

\* C18, third part: a waiter that lost its race ends after a while
C18_LoserEnds == \A k \in Calls : Lost(k) ~> ~Lost(k)

\* C18 as claimed: the waiter that lost the race is discarded safely.
C18_LoserDiscarded ==
    /\ C18_LoserChangesNothing
    /\ []C18_LoserSendNeverBlocks
    /\ C18_LoserEnds


\* the last IsAccepting call has returned a value of the flag
ReadReturned == iRet \in {"true", "false"}

\* C11: an IsAccepting call that takes the read lock after an Accepting(b) call
\* has returned, with no write of the flag since the one of that call, reads
\* and returns b, for b true and b false, whichever goroutines made the calls.
C11_ReadSeesCompletedWrite ==
    /\ (ipc = "rlocked" /\ iExp # "none") => BoolStr(iState) = iExp
    /\ (ReadReturned /\ iExp # "none") => iRet = iExp

C11_Witness ==
    /\ ReadReturned /\ iExp = "true" /\ iRet = "true"
    /\ aRet = "nil"

\* the current OnStop call has started its waiter goroutine or its timer, has
\* taken a select case or has started a hook
DrainStarted ==
    /\ callNo > 0
    /\ \/ wpc[callNo] # "none"
       \/ timerArmed
       \/ branch # "none"
       \/ Len(hookLog) > 0

\* C12: an OnStop call has written false to the flag before its waiter
\* goroutine or its timer starts and before any hook runs; and an IsAccepting
\* call that takes the read lock after OnStop's write, with no Accepting(true)
\* write since, returns false, while OnStop drains and after it has returned.
C12_StopClearsFlagFirst ==
    /\ DrainStarted => callWrote
    /\ (ipc = "rlocked" /\ iStop) => iState = FALSE
    /\ (ReadReturned /\ iStop) => iRet = "false"
    /\ stopWrote => ~accepting

\* Accepting(true) has returned, OnStop has written the flag after it and a
\* read made while OnStop waits in its select has returned false
C12_Witness ==
    /\ spc = "parked" /\ counter > 0
    /\ aRet = "nil" /\ stopWrote
    /\ ReadReturned /\ iStop /\ iExp = "false" /\ iRet = "false"

\* C14: on a nil watcher Accepting, IsAccepting and OnStop each return an error
\* and nothing else happens: no hook runs, no waiter goroutine and no timer is
\* started, no lock is taken.
C14_NilReceiverErrors ==
    w = "nil" =>
        /\ ret \in {"none", "ErrNilReceiver"}
        /\ aRet \in {"none", "ErrNilReceiver"}
        /\ iRet \in {"none", "ErrNilReceiver"}
        /\ spc = "idle" /\ apc = "idle" /\ ipc = "idle"
        /\ callNo = 0 /\ branch = "none"
        /\ hookLog = << >> /\ \A i \in 1 .. MaxHooks : hookRuns[i] = 0
        /\ \A k \in Calls : wpc[k] = "none"
        /\ ~timerArmed
        /\ ~rwW /\ rwR = 0

C14_Witness ==
    /\ w = "nil"
    /\ ret = "ErrNilReceiver" /\ aRet = "ErrNilReceiver" /\ iRet = "ErrNilReceiver"

\* C19: a RecordConnState call with StateActive or StateIdle changes neither
\* the counter, nor the accepting flag and its lock, nor anything of a drain
\* race in progress: waiter goroutines, channels, timer, select, hooks, result.
C19_OtherStatesIgnored ==
    [][(\E st \in {"StateActive", "StateIdle"} : RecordConnStateSeen(st, TRUE)) =>
          UNCHANGED << counter, tallyVars, lockVars, spc, callNo, waiterVars, timerVars,
                       branch, hookVars, ret, crashed, everPanicked >>]_vars

\* such a state was reported while OnStop waits in its select with a
\* connection open
C19_Witness ==
    /\ sawOther
    /\ spc = "parked" /\ counter = 1 /\ wpc[callNo] = "blocked"

\* C20: the steps of Accepting(b) change only the flag and its lock: not the
\* counter, not the race, hooks or result of an OnStop call; and a StateNew
\* event adds one to the counter whatever the flag is.
C20_AcceptingOnlySetsFlag ==
    [][/\ ((\E b \in BOOLEAN : AcceptingLock(b)) \/ AcceptingReturn) =>
              UNCHANGED << counter, tallyVars, spc, callNo, waiterVars, timerVars,
                           branch, hookVars, ret, crashed, everPanicked, histVars >>
       /\ (\E recovered \in BOOLEAN : RecordConnStateSeen("StateNew", recovered)) =>
              counter' = counter + 1]_vars

\* Accepting(true) has returned while OnStop waits in its select, and a
\* connection opened during the call has been counted
C20_Witness ==
    /\ spc = "parked"
    /\ accepting /\ lastDone = "true"
    /\ ~openAtCall /\ counter = 1 /\ nNew = 1


\* the exit code that tells the outcome of the OnStop call SigHandle made
ExitCodeFor(err) == IF err = "nil" THEN 0 ELSE 1

\* SigHandle has dealt with a stop signal and is back at its range loop
SigHandled == hpc = "range" /\ stopErr # "none"

\* C21 as claimed: for a stop signal SigHandle sends exactly one code on the
\* exitcode channel, 1 if OnStop returned the timed-out error and 0 if it
\* returned nil; 0 is never sent for a shutdown that timed out.
C21_OneExitCodePerSignal ==
    /\ Len(sent) <= 1
    /\ \A j \in 1 .. Len(sent) : sent[j] = ExitCodeFor(stopErr)
    /\ SigHandled => Len(sent) = 1

\* what does hold: the first code sent for a stop signal tells the outcome,
\* and a shutdown that drained has one code sent for it, 0
C21_FirstCodeTellsOutcome ==
    /\ sent # << >> => sent[1] = ExitCodeFor(stopErr)
    /\ stopErr = "nil" => Len(sent) <= 1
    /\ SigHandled => Len(sent) >= 1
    /\ mpc \in {"got", "exited"} => exitCode \in {0, 1}


\* the goroutines inside the critical section of an Accepting call: between
\* its Lock and its Unlock
WritersInside ==
    (IF apc = "locked" THEN {"Accepting"} ELSE {})
        \cup (IF spc \in {"accWrite", "accUnlock"} THEN {"OnStop"} ELSE {})

\* the goroutines inside the critical section of an IsAccepting call: between
\* its RLock and its RUnlock
ReadersInside ==
    (IF ipc = "rlocked" THEN {0} ELSE {}) \cup {p \in Pollers : ppc[p] = "rlocked"}

\* C22: an Accepting write is never inside its critical section together with
\* another Accepting write or with an IsAccepting read; IsAccepting reads may
\* be inside theirs together.  The lock's own state agrees with the positions
\* of the goroutines.
C22_ReaderWriterExclusion ==
    /\ Cardinality(WritersInside) <= 1
    /\ WritersInside # {} => ReadersInside = {}
    /\ rwW <=> WritersInside # {}
    /\ rwR = Cardinality(ReadersInside)

\* two reads are inside their critical sections together, while OnStop waits
\* for them to leave
C22_Witness ==
    /\ Cardinality(ReadersInside) >= 2
    /\ spc = "accLock"


\* OnStop is past its Accepting(false): in the drain race, in RunHooks or in
\* a hook
StopperPastFlag == spc \in {"spawn", "timer", "poll", "parked", "hooks", "inHook", "ret"}

\* a RecordConnState call with state st goes through (it returns or panics)
ConnCallGoesThrough(st) ==
    ENABLED (\E recovered \in BOOLEAN : RecordConnState(st, recovered) /\ UNCHANGED sawOther)

\* a goroutine that holds acceptingMut in Accepting or IsAccepting can leave
ClientLeaves ==
    \/ ENABLED AcceptingReturn
    \/ ENABLED IsAcceptingReturn
    \/ \E p \in Pollers : ENABLED PollerReturn(p)

\* C23: RecordConnState, Accepting and IsAccepting never wait for OnStop.  A
\* RecordConnState call goes through in every state.  While OnStop is in its
\* drain race or in a hook it does not hold the lock of the flag: an Accepting
\* or IsAccepting call made then, by another goroutine or by the hook, takes
\* the lock at once or waits only for a caller of Accepting or IsAccepting
\* that is able to leave; and a call that has the lock can return.  OnStop's
\* own wait for the lock is a wait for such a caller: no state is a deadlock.
C23_CallsNeverWaitForOnStop ==
    (w = "ok" /\ ~crashed) =>
        /\ \A st \in ConnStates : ConnCallGoesThrough(st)
        /\ StopperPastFlag =>
              /\ rwW => apc = "locked"
              /\ apc = "idle" => ((\A b \in BOOLEAN : ENABLED AcceptingLock(b)) \/ ClientLeaves)
              /\ apc = "locked" => ENABLED AcceptingReturn
              /\ \A p \in Pollers :
                    /\ ppc[p] = "idle" => (ENABLED PollerRLock(p) \/ ENABLED AcceptingReturn)
                    /\ ppc[p] = "rlocked" => ENABLED PollerReturn(p)
        /\ spc = "accLock" => (ENABLED OnStopAccLock \/ ClientLeaves)

\* OnStop is inside a hook; during the call a connection was opened and
\* counted, Accepting(true) wrote the flag and returned, and an IsAccepting
\* call made after it has read true
C23_Witness ==
    /\ spc = "inHook"
    /\ ~openAtCall /\ counter = 1
    /\ callWrote /\ ~stopWrote /\ lastDone = "true" /\ aRet = "nil"
    /\ \E p \in Pollers : ppc[p] = "rlocked" /\ pState[p] = TRUE


====
